---- MODULE Spec2Model ----
(***************************************************************************)
(* A model of the db1000n job engine: the Runner's fetch/diff/replace loop *)
(* (runner.go: Runner.Run, Runner.runJobs, computeCount) and the utility   *)
(* and combinator jobs (src/job/utils.go).  A job instance is an explicit  *)
(* call stack of frames, one per handler invocation; a context is the      *)
(* generation it descends from, the earliest enclosing deadline and the    *)
(* "data.<name>" values stored on it.                                      *)
(***************************************************************************)
EXTENDS Integers, Sequences, FiniteSets, TLC

VARIABLES
    rpc,          \* Runner.Run: position in the loop body
    lastKnown,    \* Runner.Run: lastKnownConfig
    rawConfig,    \* Runner.Run: the RawMultiConfig fetched in this cycle
    cancelFn,     \* Runner.Run: cancel (0 = nil, else the generation it cancels)
    tracker,      \* Runner.Run: tracker (0 = nil, else the metrics of that generation)
    launchIdx,    \* Runner.runJobs: i, the entry being processed
    launchLeft,   \* Runner.runJobs: instances of entry i still to start
    gens,         \* number of generations created so far (runJobs calls)
    cancelled,    \* generations whose cancel function has been called
    stopped,      \* the context given to Run is done (shutdown signal)
    cycles,       \* refresh cycles completed
    hist,         \* observations: what each cycle and the reporter did
    inst,         \* job instances (goroutines started by runJobs)
    globalJobsCfg, \* Runner.globalJobsCfg: SkipEncrypted, ScaleFactor
    reporter,     \* Runner.reporter: TRUE when it is not nil
    intSize,      \* strconv.IntSize: the width of int in this build
    locker,       \* utils.Locker: key -> owner invocation, <<>> when unlocked
    now           \* the clock

vars == <<rpc, lastKnown, rawConfig, cancelFn, tracker, launchIdx, launchLeft,
          gens, cancelled, stopped, cycles, hist, inst, globalJobsCfg, reporter,
          intSize, locker, now>>

runnerVars == <<rpc, lastKnown, rawConfig, cancelFn, tracker, launchIdx,
                launchLeft, gens, cycles, hist>>

jobVars == <<inst, locker, now>>

\* the fields of the Runner, set by NewRunner, and the width of int the
\* program was built with: never written again
runnerFields == <<globalJobsCfg, reporter, intSize>>

-----------------------------------------------------------------------------
(* Bounds *)

MaxSleep == 2        \* longest sleep / timeout duration, in clock ticks
MaxCount == 2        \* largest iteration count of a loop
MaxTime == 4         \* the clock stops here
NumInstances == 2    \* instances contending for named locks
MaxRequested == 2    \* the largest count a config entry of a launch pass asks for
MaxCycles == 2       \* refresh cycles of the Runner

-----------------------------------------------------------------------------
(* Values and errors returned by handlers: (data any, err error) *)

Data(t, s) == [t |-> t, s |-> s]
NilData == Data("nil", <<>>)

Err(e, w) == [e |-> e, w |-> w]
NoErr == Err("nil", 0)

Result(d, e) == [data |-> d, err |-> e]
NoResult == Result(NilData, Err("none", 0))

\* fmt.Errorf("...: %w", err)
Wrap(err) == Err(err.e, err.w + 1)

-----------------------------------------------------------------------------
(* strconv, on strings given as sequences of characters.  A number is kept *)
(* as its canonical decimal string, so that the 32 and 64 bit limits are    *)
(* exact.                                                                  *)

Digits == <<"0", "1", "2", "3", "4", "5", "6", "7", "8", "9">>

IsDigit(c) == \E d \in 1..10 : Digits[d] = c

DigitVal(c) == (CHOOSE d \in 1..10 : Digits[d] = c) - 1

RECURSIVE StripZeros(_)
StripZeros(s) ==
    IF Len(s) > 1 /\ Head(s) = "0" THEN StripZeros(Tail(s)) ELSE s

\* a > b for canonical digit strings
RECURSIVE LexGreater(_, _)
LexGreater(a, b) ==
    IF a = <<>> THEN FALSE
    ELSE IF DigitVal(Head(a)) # DigitVal(Head(b))
         THEN DigitVal(Head(a)) > DigitVal(Head(b))
         ELSE LexGreater(Tail(a), Tail(b))

NumGreater(a, b) ==
    IF Len(a) # Len(b) THEN Len(a) > Len(b) ELSE LexGreater(a, b)

MaxUint32 == <<"4", "2", "9", "4", "9", "6", "7", "2", "9", "5">>
MaxUint64 == <<"1", "8", "4", "4", "6", "7", "4", "4", "0", "7", "3", "7", "0", "9", "5", "5", "1", "6", "1", "5">>
MaxInt32 == <<"2", "1", "4", "7", "4", "8", "3", "6", "4", "7">>
MinInt32Abs == <<"2", "1", "4", "7", "4", "8", "3", "6", "4", "8">>
MaxInt64 == <<"9", "2", "2", "3", "3", "7", "2", "0", "3", "6", "8", "5", "4", "7", "7", "5", "8", "0", "7">>
MinInt64Abs == <<"9", "2", "2", "3", "3", "7", "2", "0", "3", "6", "8", "5", "4", "7", "7", "5", "8", "0", "8">>

\* the widths of int the released builds have (strconv.IntSize)
IntSizes == {32, 64}

\* the loop of strconv.ParseUint over the bytes of s, at byte k with the
\* bytes before it read: the first byte that is not a digit, or the first
\* digit that takes the value read so far over max, ends it
RECURSIVE ScanDigits(_, _, _)
ScanDigits(s, k, max) ==
    IF k > Len(s) THEN [v |-> StripZeros(s), err |-> NoErr]
    ELSE IF ~IsDigit(s[k]) THEN [v |-> <<"0">>, err |-> Err("syntax", 0)]
    ELSE IF NumGreater(StripZeros(SubSeq(s, 1, k)), max)
         THEN [v |-> max, err |-> Err("range", 0)]
         ELSE ScanDigits(s, k + 1, max)

\* strconv.ParseUint(s, 10, bitSize)
ParseUint(s, bitSize) ==
    IF s = <<>> THEN [v |-> <<"0">>, err |-> Err("syntax", 0)]
    ELSE ScanDigits(s, 1, IF bitSize = 32 THEN MaxUint32 ELSE MaxUint64)

\* strconv.ParseInt(s, 10, bitSize)
ParseInt(s, bitSize) ==
    LET neg == s # <<>> /\ Head(s) = "-"
        body == IF s # <<>> /\ Head(s) \in {"-", "+"} THEN Tail(s) ELSE s
        un == ParseUint(body, bitSize)
        cutoff == IF bitSize = 32 THEN MinInt32Abs ELSE MinInt64Abs
    IN  IF un.err.e = "syntax" THEN [v |-> <<"0">>, err |-> Err("syntax", 0)]
        ELSE IF ~neg /\ ~NumGreater(cutoff, un.v)
             THEN [v |-> IF bitSize = 32 THEN MaxInt32 ELSE MaxInt64,
                   err |-> Err("range", 0)]
        ELSE IF neg /\ NumGreater(un.v, cutoff)
             THEN [v |-> <<"-">> \o cutoff, err |-> Err("range", 0)]
        ELSE [v |-> IF neg /\ un.v # <<"0">> THEN <<"-">> \o un.v ELSE un.v,
              err |-> NoErr]

\* strconv.Atoi(s): ParseInt at the width of the build's int
Atoi(s) == ParseInt(s, intSize)

-----------------------------------------------------------------------------
(* Job specifications (config.Config): type, name and args.  The args of   *)
(* every handler are kept in one record shape.                             *)

StrTrue == <<"t", "r", "u", "e">>

\* a template: the value stored under "data.<ref>" (when ref is given)
\* followed by a literal
Tpl(ref, lit) == [ref |-> ref, lit |-> lit]
Lit(lit) == Tpl(<<>>, lit)

EnvNames == {"x", "y"}
EmptyEnv == [n \in EnvNames |-> NilData]

\* templates.ParseAndExecute(logger, tpl, ctx)
ParseAndExecute(tpl, env) ==
    (IF tpl.ref = <<>> THEN <<>> ELSE env[tpl.ref[1]].s) \o tpl.lit

NoJob == <<>>

BaseJob ==
    [type |-> "log", name |-> "x", bad |-> FALSE, value |-> Lit(<<>>),
     vtype |-> "string", dur |-> 0, count |-> 0, key |-> Lit(<<>>),
     enc |-> "ok", outcome |-> "ok", job |-> NoJob]

LogCfg == BaseJob
SetValueCfg(name, value, vtype) ==
    [BaseJob EXCEPT !.type = "set-value", !.name = name, !.value = value, !.vtype = vtype]
CheckCfg(value) == [BaseJob EXCEPT !.type = "check", !.value = value]
SleepCfg(d) == [BaseJob EXCEPT !.type = "sleep", !.dur = d]
PayloadCfg(outcome) == [BaseJob EXCEPT !.type = "payload", !.outcome = outcome]
UnknownCfg == [BaseJob EXCEPT !.type = "no-such-job"]
BadArgs(j) == [j EXCEPT !.bad = TRUE]

DiscardErrorCfg(j) == [BaseJob EXCEPT !.type = "discard-error", !.job = <<j>>]
TimeoutCfg(d, j) == [BaseJob EXCEPT !.type = "timeout", !.dur = d, !.job = <<j>>]
LoopCfg(n, j) == [BaseJob EXCEPT !.type = "loop", !.count = n, !.job = <<j>>]
LockCfg(key, j) == [BaseJob EXCEPT !.type = "lock", !.key = key, !.job = <<j>>]
EncryptedCfg(enc, j) == [BaseJob EXCEPT !.type = "encrypted", !.enc = enc, !.job = <<j>>]

Nested(j) == j.job[1]

\* the job registry: Get(type) # nil
RegisteredTypes ==
    {"log", "set-value", "check", "sleep", "discard-error", "timeout", "loop",
     "lock", "encrypted", "payload"}

Get(type) == type \in RegisteredTypes

-----------------------------------------------------------------------------
(* Contexts and frames *)

NoDeadline == -1
NotYet == -1

MinDeadline(a, b) ==
    IF a = NoDeadline THEN b ELSE IF b = NoDeadline THEN a ELSE IF a < b THEN a ELSE b

Frame(job, env, deadline, quiet) ==
    [job |-> job, pc |-> "call", env |-> env, deadline |-> deadline,
     iter |-> 0, rem |-> 0, key |-> <<>>, waited |-> FALSE, held |-> FALSE,
     defers |-> FALSE,
     quiet |-> quiet]

\* the goroutine of instance i exists: it has not ended, nor has the process
Running(i) == inst[i].status = "running" /\ rpc # "exited"

Depth(i) == Len(inst[i].stack)

Top(i) == inst[i].stack[Depth(i)]

DeadlinePassed(f) == f.deadline # NoDeadline /\ now >= f.deadline

RootCancelledAt(g) ==
    IF stopped # NotYet /\ (cancelled[g] = NotYet \/ stopped < cancelled[g])
    THEN stopped ELSE cancelled[g]

\* <-ctx.Done() is ready for the context of frame f of an instance of generation g
CtxDone(g, f) == RootCancelledAt(g) # NotYet \/ DeadlinePassed(f)

\* ctx.Err(): whichever of the deadline and the cancellation came first.  A
\* deadline that is to come when the context is made passes as the clock
\* reaches it, before any cancel of that instant; a context made of one that
\* is done keeps the deadline, and so the error, of that one (timeoutJob)
CtxErr(g, f) ==
    IF DeadlinePassed(f) /\ (RootCancelledAt(g) = NotYet \/ f.deadline <= RootCancelledAt(g))
    THEN Err("deadline exceeded", 0)
    ELSE IF RootCancelledAt(g) # NotYet THEN Err("context canceled", 0) ELSE NoErr

-----------------------------------------------------------------------------
(* What a handler does next: return, call the nested job, sleep, wait for  *)
(* a named lock, go round the loop, or panic.                              *)

Return(d, e) == [op |-> "return", res |-> Result(d, e)]
Call(j, env, deadline, quiet) ==
    [op |-> "call", job |-> j, env |-> env, deadline |-> deadline, quiet |-> quiet]
Sleep(d) == [op |-> "sleep", dur |-> d]
Lock(key, deferUnlock) == [op |-> "lock", key |-> key, deferUnlock |-> deferUnlock]
Continue(env) == [op |-> "continue", env |-> env]
Panic == [op |-> "panic"]

ParseError == Err("error parsing job config", 0)
UnknownJob == Err("unknown job", 0)

Block == [op |-> "block"]

\* the mutex the Locker keeps for key is locked
Locked(key) == key \in DOMAIN locker /\ locker[key] # <<>>
Acquire == [op |-> "acquire"]

\* ParseConfig / mapstructure.Decode / utils.Decode of a handler's args: err == nil
ParseConfig(job) == ~job.bad

\* BasicJobConfig.Next(ctx): the loop goes on while the context is live and
\* the configured number of iterations is not reached
JobConfigNext(f, g) == ~CtxDone(g, f) /\ f.iter < f.job.count

-----------------------------------------------------------------------------
(* The handlers of src/job/utils.go.  A handler is given its frame f, the  *)
(* result ret its nested job returned (when f.pc = "wait") and the         *)
(* generation g its context descends from, and answers with its next step. *)

\* "log" in config
logJob(f, ret, g) ==
    IF ~ParseConfig(f.job) THEN Return(NilData, ParseError)
    ELSE Return(NilData, NoErr)

\* "set-value" in config
setVarJob(f, ret, g) ==
    LET text == ParseAndExecute(f.job.value, f.env)
    IN  IF ~ParseConfig(f.job) THEN Return(NilData, ParseError)
        ELSE CASE f.job.vtype = "int" ->
                    Return(Data("int", Atoi(text).v), Atoi(text).err)
               [] f.job.vtype = "uint" ->
                    Return(Data("uint", ParseUint(text, 32).v), ParseUint(text, 32).err)
               [] f.job.vtype = "int64" ->
                    Return(Data("int64", ParseInt(text, 64).v), ParseInt(text, 64).err)
               [] f.job.vtype = "uint64" ->
                    Return(Data("uint64", ParseUint(text, 64).v), ParseUint(text, 64).err)
               [] OTHER -> Return(Data("string", text), NoErr)

\* "check" in config
checkJob(f, ret, g) ==
    IF ~ParseConfig(f.job) THEN Return(NilData, ParseError)
    ELSE IF ParseAndExecute(f.job.value, f.env) # StrTrue
         THEN Return(NilData, Err("validation failed", 0))
         ELSE Return(NilData, NoErr)

\* "sleep" in config: time.Sleep(jobConfig.Value) never looks at ctx
sleepJob(f, ret, g) ==
    IF f.pc = "call"
    THEN IF ~ParseConfig(f.job) THEN Return(NilData, ParseError)
         ELSE Sleep(f.job.dur)
    ELSE IF f.rem > 0 THEN Block
         ELSE Return(NilData, NoErr)

\* "discard-error" in config
discardErrorJob(f, ret, g) ==
    IF f.pc = "call"
    THEN IF ~ParseConfig(f.job) THEN Return(NilData, ParseError)
         ELSE IF ~Get(Nested(f.job).type) THEN Return(NilData, NoErr)
         ELSE Call(Nested(f.job), f.env, f.deadline, f.quiet)
    ELSE Return(ret.data, NoErr)

\* the deadline of context.WithTimeout(ctx, timeout), ctx the context of
\* frame f: a context made of one that is done is done with the error of that
\* one, whatever its own deadline; a timeout of zero or less makes a context
\* that is done at once, which is a deadline of now
WithTimeout(g, f, timeout) ==
    IF CtxDone(g, f) THEN f.deadline
    ELSE MinDeadline(f.deadline, IF timeout <= 0 THEN now ELSE now + timeout)

\* "timeout" in config
timeoutJob(f, ret, g) ==
    IF f.pc = "call"
    THEN IF ~ParseConfig(f.job) THEN Return(NilData, ParseError)
         ELSE IF ~Get(Nested(f.job).type) THEN Return(NilData, UnknownJob)
         ELSE Call(Nested(f.job), f.env, WithTimeout(g, f, f.job.dur), f.quiet)
    ELSE Return(ret.data, ret.err)

\* loopJob that drops the nested job's output instead of storing it (line 203)
loopJobForgetsOutput(f, ret, g) ==
    IF f.pc = "call" /\ ~ParseConfig(f.job) THEN Return(NilData, ParseError)
    ELSE IF f.pc \in {"call", "next"}
    THEN IF ~JobConfigNext(f, g) THEN Return(NilData, NoErr)
         ELSE IF ~Get(Nested(f.job).type) THEN Return(NilData, UnknownJob)
         ELSE Call(Nested(f.job), f.env, f.deadline, f.quiet)
    ELSE IF ret.err # NoErr THEN Return(NilData, Wrap(ret.err))
         ELSE Continue(f.env)

\* loopJob without the test of the nested job's error (lines 199-201)
loopJobIgnoresError(f, ret, g) ==
    IF f.pc = "call" /\ ~ParseConfig(f.job) THEN Return(NilData, ParseError)
    ELSE IF f.pc \in {"call", "next"}
    THEN IF ~JobConfigNext(f, g) THEN Return(NilData, NoErr)
         ELSE IF ~Get(Nested(f.job).type) THEN Return(NilData, UnknownJob)
         ELSE Call(Nested(f.job), f.env, f.deadline, f.quiet)
    ELSE Continue([f.env EXCEPT ![Nested(f.job).name] = ret.data])

\* "loop" in config
loopJob(f, ret, g) ==
    IF f.pc = "call" /\ ~ParseConfig(f.job) THEN Return(NilData, ParseError)
    ELSE IF f.pc \in {"call", "next"}
    THEN IF ~JobConfigNext(f, g) THEN Return(NilData, NoErr)
         ELSE IF ~Get(Nested(f.job).type) THEN Return(NilData, UnknownJob)
         ELSE Call(Nested(f.job), f.env, f.deadline, f.quiet)
    ELSE IF ret.err # NoErr THEN Return(NilData, Wrap(ret.err))
         ELSE Continue([f.env EXCEPT ![Nested(f.job).name] = ret.data])

\* lockJob that runs the nested job without waiting for the key's mutex
lockJobNoWait(f, ret, g) ==
    CASE f.pc = "call" ->
            IF ~ParseConfig(f.job) THEN Return(NilData, ParseError)
            ELSE Lock(ParseAndExecute(f.job.key, f.env), TRUE)
      [] f.pc = "locking" -> Acquire
      [] f.pc = "locked" ->
            IF ~Get(Nested(f.job).type) THEN Return(NilData, UnknownJob)
            ELSE Call(Nested(f.job), f.env, f.deadline, f.quiet)
      [] OTHER -> Return(ret.data, ret.err)

\* lockJob that unlocks after the nested job instead of deferring the unlock
\* (line 225): the exits by error before the call and by panic keep the key
lockJobNoDefer(f, ret, g) ==
    CASE f.pc = "call" ->
            IF ~ParseConfig(f.job) THEN Return(NilData, ParseError)
            ELSE Lock(ParseAndExecute(f.job.key, f.env), FALSE)
      [] f.pc = "locking" ->
            IF Locked(f.key) THEN Block ELSE Acquire
      [] f.pc = "locked" ->
            IF ~Get(Nested(f.job).type) THEN Return(NilData, UnknownJob)
            ELSE Call(Nested(f.job), f.env, f.deadline, f.quiet)
      [] OTHER -> Return(ret.data, ret.err)

\* lockJob whose wait for the key ends when its context is done
lockJobGivesUp(f, ret, g) ==
    CASE f.pc = "call" ->
            IF ~ParseConfig(f.job) THEN Return(NilData, ParseError)
            ELSE Lock(ParseAndExecute(f.job.key, f.env), TRUE)
      [] f.pc = "locking" ->
            IF CtxDone(g, f) THEN Return(NilData, CtxErr(g, f))
            ELSE IF Locked(f.key) THEN Block ELSE Acquire
      [] f.pc = "locked" ->
            IF ~Get(Nested(f.job).type) THEN Return(NilData, UnknownJob)
            ELSE Call(Nested(f.job), f.env, f.deadline, f.quiet)
      [] OTHER -> Return(ret.data, ret.err)

\* "lock" in config
lockJob(f, ret, g) ==
    CASE f.pc = "call" ->
            IF ~ParseConfig(f.job) THEN Return(NilData, ParseError)
            ELSE Lock(ParseAndExecute(f.job.key, f.env), TRUE)
      [] f.pc = "locking" ->
            IF Locked(f.key) THEN Block ELSE Acquire
      [] f.pc = "locked" ->
            IF ~Get(Nested(f.job).type) THEN Return(NilData, UnknownJob)
            ELSE Call(Nested(f.job), f.env, f.deadline, f.quiet)
      [] OTHER -> Return(ret.data, ret.err)

\* encryptedJob with the SkipEncrypted test moved after ParseConfig
encryptedJobParsesFirst(f, ret, g) ==
    IF f.pc = "call"
    THEN IF ~ParseConfig(f.job) THEN Return(NilData, ParseError)
         ELSE IF globalJobsCfg.SkipEncrypted THEN Return(NilData, Err("skip encrypted", 0))
         ELSE IF f.job.enc = "bad base64" THEN Return(NilData, Err("base64", 0))
         ELSE IF f.job.enc = "bad ciphertext" THEN Return(NilData, Err("decrypt", 0))
         ELSE IF f.job.enc = "bad format" THEN Return(NilData, Err("unmarshal", 0))
         ELSE IF ~Get(Nested(f.job).type) THEN Return(NilData, UnknownJob)
         ELSE IF f.job.enc = "protected"
              THEN Call(Nested(f.job), f.env, f.deadline, TRUE)
              ELSE Call(Nested(f.job), f.env, f.deadline, f.quiet)
    ELSE Return(ret.data, ret.err)

\* "encrypted" in config
encryptedJob(f, ret, g) ==
    IF f.pc = "call"
    THEN IF globalJobsCfg.SkipEncrypted THEN Return(NilData, Err("skip encrypted", 0))
         ELSE IF ~ParseConfig(f.job) THEN Return(NilData, ParseError)
         ELSE IF f.job.enc = "bad base64" THEN Return(NilData, Err("base64", 0))
         ELSE IF f.job.enc = "bad ciphertext" THEN Return(NilData, Err("decrypt", 0))
         ELSE IF f.job.enc = "bad format" THEN Return(NilData, Err("unmarshal", 0))
         ELSE IF ~Get(Nested(f.job).type) THEN Return(NilData, UnknownJob)
         ELSE IF f.job.enc = "protected"
              THEN Call(Nested(f.job), f.env, f.deadline, TRUE)
              ELSE Call(Nested(f.job), f.env, f.deadline, f.quiet)
    ELSE Return(ret.data, ret.err)

\* any other registered handler (a payload job): succeeds, fails, faults, or
\* blocks until its context is done and returns the context's error
payloadJob(f, ret, g) ==
    CASE f.job.outcome = "ok" -> Return(Data("string", <<"o", "k">>), NoErr)
      [] f.job.outcome = "fail" -> Return(NilData, Err("payload failed", 0))
      [] f.job.outcome = "panic" -> Panic
      [] OTHER -> IF CtxDone(g, f) THEN Return(NilData, CtxErr(g, f)) ELSE Block

\* Get(type)(ctx, args, ...): dispatch through the registry
Handler(f, ret, g) ==
    CASE f.job.type = "log" -> logJob(f, ret, g)
      [] f.job.type = "set-value" -> setVarJob(f, ret, g)
      [] f.job.type = "check" -> checkJob(f, ret, g)
      [] f.job.type = "sleep" -> sleepJob(f, ret, g)
      [] f.job.type = "discard-error" -> discardErrorJob(f, ret, g)
      [] f.job.type = "timeout" -> timeoutJob(f, ret, g)
      [] f.job.type = "loop" -> loopJob(f, ret, g)
      [] f.job.type = "lock" -> lockJob(f, ret, g)
      [] f.job.type = "encrypted" -> encryptedJob(f, ret, g)
      [] OTHER -> payloadJob(f, ret, g)

-----------------------------------------------------------------------------
(* Job instances: the goroutine runJobs starts for one instance of an      *)
(* entry calls the entry's handler; handlers call nested handlers.         *)

\* runJobs, line 216: the goroutine's call of the handler with the scope,
\* the metrics and the logger runJobs was given
Instance(g, metric, quiet, job) ==
    [gen |-> g, metric |-> metric, job |-> job,
     stack |-> <<Frame(job, EmptyEnv, NoDeadline, quiet)>>,
     ret |-> NoResult, status |-> "running", out |-> NoResult]

\* the next step of the invocation on top of the stack; a panic of the job it
\* called goes on through it, no handler recovers
Effect(i) ==
    IF Top(i).pc = "panic" THEN Panic
    ELSE Handler(Top(i), inst[i].ret, inst[i].gen)

SetTop(i, f) == [inst EXCEPT ![i].stack[Depth(i)] = f, ![i].ret = NoResult]

\* utils.Locker: Lock(key) by invocation owner; the mutex is created on first use
LockerLock(key, owner) ==
    [k \in DOMAIN locker \cup {key} |-> IF k = key THEN owner ELSE locker[k]]

\* the unlock function Lock returned, applied to the mutexes lk
LockerUnlock(lk, key) == [lk EXCEPT ![key] = <<>>]

\* the deferred calls of frame f, run as it is left
RunDefers(f, lk) == IF f.held /\ f.defers THEN LockerUnlock(lk, f.key) ELSE lk

\* a handler returns: its deferred calls run, the caller gets the result; the
\* goroutine of runJobs logs the error of the entry's handler and ends
StepReturn(i) ==
    /\ Running(i) /\ Depth(i) > 0
    /\ Effect(i).op = "return"
    /\ locker' = RunDefers(Top(i), locker)
    /\ inst' = IF Depth(i) = 1
               THEN [inst EXCEPT ![i].stack = <<>>, ![i].status = "done",
                                 ![i].out = Effect(i).res, ![i].ret = NoResult]
               ELSE [inst EXCEPT ![i].stack = SubSeq(inst[i].stack, 1, Depth(i) - 1),
                                 ![i].ret = Effect(i).res]
    /\ UNCHANGED <<runnerVars, cancelled, stopped, runnerFields, now>>

\* a combinator calls its nested job with the context it derived, which is its
\* own context from then on (ctx, cancel := context.With...(ctx))
StepCall(i) ==
    /\ Running(i) /\ Depth(i) > 0
    /\ Effect(i).op = "call"
    /\ LET e == Effect(i)
       IN  inst' = [inst EXCEPT
                      ![i].stack = SubSeq(inst[i].stack, 1, Depth(i) - 1)
                                   \o <<[Top(i) EXCEPT !.pc = "wait", !.deadline = e.deadline],
                                        Frame(e.job, e.env, e.deadline, e.quiet)>>,
                      ![i].ret = NoResult]
    /\ UNCHANGED <<runnerVars, cancelled, stopped, runnerFields, locker, now>>

\* sleepJob enters time.Sleep
StepSleep(i) ==
    /\ Running(i) /\ Depth(i) > 0
    /\ Effect(i).op = "sleep"
    /\ inst' = SetTop(i, [Top(i) EXCEPT !.pc = "sleep", !.rem = Effect(i).dur])
    /\ UNCHANGED <<runnerVars, cancelled, stopped, runnerFields, locker, now>>

\* lockJob has resolved its key and enters locker.Lock, where it has to wait
\* when the key's mutex is locked
StepLock(i) ==
    /\ Running(i) /\ Depth(i) > 0
    /\ Effect(i).op = "lock"
    /\ inst' = SetTop(i, [Top(i) EXCEPT !.pc = "locking", !.key = Effect(i).key,
                                        !.waited = Locked(Effect(i).key),
                                        !.defers = Effect(i).deferUnlock])
    /\ UNCHANGED <<runnerVars, cancelled, stopped, runnerFields, locker, now>>

\* locker.Lock returns: the mutex of the key was free and is now locked
StepAcquire(i) ==
    /\ Running(i) /\ Depth(i) > 0
    /\ Effect(i).op = "acquire"
    /\ locker' = LockerLock(Top(i).key, <<i, Depth(i)>>)
    /\ inst' = SetTop(i, [Top(i) EXCEPT !.pc = "locked", !.held = TRUE])
    /\ UNCHANGED <<runnerVars, cancelled, stopped, runnerFields, now>>

\* loopJob stores the nested job's output on its context and goes round
StepContinue(i) ==
    /\ Running(i) /\ Depth(i) > 0
    /\ Effect(i).op = "continue"
    /\ inst' = SetTop(i, [Top(i) EXCEPT !.pc = "next", !.env = Effect(i).env,
                                        !.iter = @ + 1])
    /\ UNCHANGED <<runnerVars, cancelled, stopped, runnerFields, locker, now>>

\* StepPanic without the deferred utils.PanicHandler: the panic that has left
\* the last frame ends the process
StepPanicUnrecovered(i) ==
    /\ Running(i) /\ Depth(i) > 0
    /\ Effect(i).op = "panic"
    /\ locker' = RunDefers(Top(i), locker)
    /\ inst' = IF Depth(i) = 1
               THEN [inst EXCEPT ![i].stack = <<>>, ![i].status = "fault",
                                 ![i].ret = NoResult]
               ELSE [inst EXCEPT ![i].stack =
                                    SubSeq(inst[i].stack, 1, Depth(i) - 2)
                                    \o <<[inst[i].stack[Depth(i) - 1] EXCEPT !.pc = "panic"]>>,
                                 ![i].ret = NoResult]
    /\ rpc' = IF Depth(i) = 1 THEN "exited" ELSE rpc
    /\ UNCHANGED <<lastKnown, rawConfig, cancelFn, tracker, launchIdx, launchLeft, gens,
                   cycles, hist, cancelled, stopped, runnerFields, now>>

\* a panic leaves one frame: the frame's deferred calls run and the panic goes
\* on in the caller, each frame a step of its own (another goroutine may take
\* a key between two of them); when it has left the last frame the deferred
\* utils.PanicHandler of the goroutine recovers
StepPanic(i) ==
    /\ Running(i) /\ Depth(i) > 0
    /\ Effect(i).op = "panic"
    /\ locker' = RunDefers(Top(i), locker)
    /\ inst' = IF Depth(i) = 1
               THEN [inst EXCEPT ![i].stack = <<>>, ![i].status = "fault",
                                 ![i].ret = NoResult]
               ELSE [inst EXCEPT ![i].stack =
                                    SubSeq(inst[i].stack, 1, Depth(i) - 2)
                                    \o <<[inst[i].stack[Depth(i) - 1] EXCEPT !.pc = "panic"]>>,
                                 ![i].ret = NoResult]
    /\ UNCHANGED <<runnerVars, cancelled, stopped, runnerFields, now>>

\* instance i waits for the clock: it sleeps, or a deadline above it is to come
TimerPending(i) ==
    /\ Running(i) /\ Depth(i) > 0
    /\ \/ Top(i).pc = "sleep" /\ Top(i).rem > 0
       \/ Top(i).deadline # NoDeadline /\ now < Top(i).deadline

\* the clock advances: every sleeper has one tick less to go
Tick ==
    /\ now < MaxTime
    /\ \E i \in DOMAIN inst : TimerPending(i)
    /\ now' = now + 1
    /\ inst' = [i \in DOMAIN inst |->
                  IF Running(i) /\ Depth(i) > 0 /\ Top(i).pc = "sleep" /\ Top(i).rem > 0
                  THEN [inst[i] EXCEPT !.stack[Depth(i)].rem = @ - 1]
                  ELSE inst[i]]
    /\ UNCHANGED <<runnerVars, cancelled, stopped, runnerFields, locker>>

InstStep(i) ==
    \/ StepReturn(i)
    \/ StepCall(i)
    \/ StepSleep(i)
    \/ StepLock(i)
    \/ StepAcquire(i)
    \/ StepContinue(i)
    \/ StepPanic(i)

-----------------------------------------------------------------------------
(* The Runner (Runner.Run, Runner.runJobs, computeCount, reportMetrics)    *)

\* a raw config: config.RawMultiConfig, with a Body that is not nil
Raw(body, protected) == [Body |-> body, isNil |-> FALSE, Protected |-> protected]

\* &config.RawMultiConfig{}: the Body is nil, which bytes.Equal takes for empty
NilConfig == [Body |-> <<>>, isNil |-> TRUE, Protected |-> FALSE]

\* an entry of config.MultiConfig.Jobs
Entry(job, filter, count) ==
    [job |-> job, filter |-> filter, count |-> count, undecodable |-> FALSE]

\* unicode.IsSpace: the characters with the White_Space property; one that
\* has no escape in a string is written as its code point
WhiteSpace ==
    {"\t", "\n", "U+000B", "\f", "\r", " ", "U+0085", "U+00A0", "U+1680",
     "U+2000", "U+2001", "U+2002", "U+2003", "U+2004", "U+2005", "U+2006",
     "U+2007", "U+2008", "U+2009", "U+200A", "U+2028", "U+2029", "U+202F",
     "U+205F", "U+3000"}

\* strings.TrimSpace
RECURSIVE TrimLeft(_)
TrimLeft(s) == IF s # <<>> /\ Head(s) \in WhiteSpace THEN TrimLeft(Tail(s)) ELSE s

RECURSIVE TrimRight(_)
TrimRight(s) ==
    IF s # <<>> /\ s[Len(s)] \in WhiteSpace
    THEN TrimRight(SubSeq(s, 1, Len(s) - 1)) ELSE s

TrimSpace(s) == TrimRight(TrimLeft(s))

\* the configs the bodies of this model decode to
ConfigLock ==
    <<Entry(LockCfg(Lit(<<"a">>), SleepCfg(1)), <<>>, 1)>>

ConfigMixed ==
    <<Entry(LoopCfg(1, LogCfg), StrTrue \o <<" ">>, 0),
      Entry(UnknownCfg, <<>>, 1),
      Entry(CheckCfg(Lit(StrTrue)), <<"n", "o">>, 1),
      Entry(PayloadCfg("panic"), <<>>, 1)>>

\* an entry that utils.Decode cannot turn into a map
ConfigUndecodable == <<[Entry(LogCfg, <<>>, 1) EXCEPT !.undecodable = TRUE]>>

\* config.Unmarshal(body, format): the decoded jobs, or nil for a malformed body
MultiConfig(jobs) == [ok |-> TRUE, Jobs |-> jobs]
Malformed == [ok |-> FALSE, Jobs |-> <<>>]

\* the entries a body of the form <<4, kind, count + 1, kind>> describes
EntryOfKind(k, count) ==
    CASE k = 1 -> Entry(LogCfg, <<>>, count)
      [] k = 2 -> Entry(LogCfg, <<"n", "o">>, count)
      [] k = 3 -> Entry(LogCfg, <<"\t", " ">> \o StrTrue \o <<"U+00A0", "\n">>, count)
      [] k = 4 -> Entry(UnknownCfg, <<>>, count)
      [] k = 5 -> Entry(PayloadCfg("fail"), <<>>, count)
      [] k = 6 -> Entry(PayloadCfg("panic"), <<>>, count)
      [] OTHER -> Entry(SleepCfg(1), <<>>, count)

ConfigPair(body) == <<EntryOfKind(body[2], body[3] - 1), EntryOfKind(body[4], 1)>>

Unmarshal(body) ==
    CASE Len(body) = 4 /\ body[1] = 4 -> MultiConfig(ConfigPair(body))
      [] body = <<1>> -> MultiConfig(ConfigLock)
      [] body = <<2>> -> MultiConfig(ConfigMixed)
      [] body = <<3>> -> MultiConfig(ConfigUndecodable)
      [] body = <<>> -> MultiConfig(<<>>)
      [] OTHER -> Malformed

\* bodies the config locations may serve
RemoteBodies == {<<>>, <<1>>, <<2>>, <<3>>, <<9>>}

\* the body of the protected (encrypted) config
IsProtected(body) == body = <<2>>

\* nonEmptyStringOrDefault(r.cfgOptions.BackupConfig, config.DefaultConfig)
BackupBody == <<1>>

\* nonNilConfigOrDefault(lastKnownConfig, backup)
nonNilConfigOrDefault(c, defaultConfig) == IF ~c.isNil THEN c ELSE defaultConfig

\* config.FetchRawMultiConfig: a config served by a location, else the fallback
FetchRawMultiConfig(fallback) ==
    {Raw(b, IsProtected(b)) : b \in RemoteBodies} \cup {fallback}

\* bytes.Equal
BytesEqual(a, b) == a = b

\* float64 arithmetic.  A positive float64 is kept as its 53 significant
\* binary digits, the first of them 1, and the exponent e of that first digit.
\* The digits are worked on in groups (9 when dividing, 13 when multiplying)
\* so that no intermediate value leaves 32 bits: den < 2^22 and m < 2^17.

\* the element of a set of one: Only({F(x) : x \in {v}}) is F(v) with v
\* evaluated once, however often F uses it
Only(S) == CHOOSE y \in S : TRUE

\* the w binary digits of v, v < 2^w
Bits(v, w) == [k \in 1..w |-> (v \div 2^(w - k)) % 2]

RECURSIVE BitLen(_)
BitLen(v) == IF v = 0 THEN 0 ELSE 1 + BitLen(v \div 2)

BitsOfNat(v) == Only({Bits(x, BitLen(x)) : x \in {v}})

\* the number the first k digits of b stand for
RECURSIVE SumBits(_, _)
SumBits(b, k) == IF k = 0 THEN 0 ELSE 2 * SumBits(b, k - 1) + b[k]

NatOfBits(b) == Only({SumBits(x, Len(x)) : x \in {b}})

\* the first 9 * k binary digits of r/den, 0 <= r < den
RECURSIVE FracBits(_, _, _)
FracBits(r, den, k) ==
    IF k = 0 THEN <<>>
    ELSE Bits((r * 512) \div den, 9) \o FracBits((r * 512) % den, den, k - 1)

\* what is left of r/den after its first 9 * k binary digits
RECURSIVE RemAfter(_, _, _)
RemAfter(r, den, k) == IF k = 0 THEN r ELSE RemAfter((r * 512) % den, den, k - 1)

\* the zero digits r/den starts with, 0 < r < den
RECURSIVE LeadingZeros(_, _)
LeadingZeros(r, den) == IF 2 * r >= den THEN 0 ELSE 1 + LeadingZeros(2 * r, den)

\* digits + 1: the digits after the last 0 become 0, and that 0 becomes 1
IncBits(b) ==
    Only({IF \A k \in 1..Len(x) : x[k] = 1 THEN <<1>> \o [k \in 1..Len(x) |-> 0]
          ELSE [k \in 1..Len(x) |->
                  IF \E j \in (k + 1)..Len(x) : x[j] = 0 THEN x[k] ELSE 1 - x[k]] :
          x \in {b}})

\* round to nearest, ties to even: digits start with a 1 of exponent e, and
\* sticky tells of a nonzero digit after the last of them
RoundFloat64(digits, sticky, e) ==
    IF Len(digits) <= 53
    THEN [bits |-> digits \o [k \in 1..(53 - Len(digits)) |-> 0], e |-> e]
    ELSE IF ~(/\ digits[54] = 1
              /\ \/ digits[53] = 1
                 \/ \E k \in 55..Len(digits) : digits[k] = 1
                 \/ sticky)
    THEN [bits |-> SubSeq(digits, 1, 53), e |-> e]
    ELSE Only({IF Len(up) = 54 THEN [bits |-> SubSeq(up, 1, 53), e |-> e + 1]
               ELSE [bits |-> up, e |-> e] :
               up \in {IncBits(SubSeq(digits, 1, 53))}})

\* the float64 nearest to num/den, num > 0 and den > 0: the value the
\* -scale flag gives GlobalConfig.ScaleFactor for the decimal num/den.  int
\* are the digits before the point and z the zero digits after it that come
\* before the first 1
Float64Of(num, den) ==
    Only({Only({RoundFloat64(digits, RemAfter((num % den) * 2^z, den, 6) # 0,
                             IF int = <<>> THEN 0 - z - 1 ELSE Len(int) - 1) :
                digits \in {int \o FracBits((num % den) * 2^z, den, 6)}}) :
          int \in {BitsOfNat(num \div den)},
          z \in {IF num < den THEN LeadingZeros(num, den) ELSE 0}})

\* the i-th group of 13 digits of b, counted from the last digit, as a number
Limb(b, i) ==
    NatOfBits(SubSeq(b, IF Len(b) - 13 * i - 12 > 1 THEN Len(b) - 13 * i - 12 ELSE 1,
                     Len(b) - 13 * i))

\* group i of b times m, with the carry of the groups below it
RECURSIVE LimbProduct(_, _, _)
LimbProduct(b, m, i) ==
    Limb(b, i) * m + (IF i = 0 THEN 0 ELSE LimbProduct(b, m, i - 1) \div 8192)

\* the digits of b * m in the groups below group i
RECURSIVE LowBits(_, _, _)
LowBits(b, m, i) ==
    IF i = 0 THEN <<>>
    ELSE Only({Bits(t % 8192, 13) : t \in {LimbProduct(b, m, i - 1)}})
         \o LowBits(b, m, i - 1)

\* the digits of b * m, m a natural number
MulBits(b, m) ==
    BitsOfNat(LimbProduct(b, m, (Len(b) - 1) \div 13)) \o LowBits(b, m, (Len(b) - 1) \div 13)

\* x * float64(m), m >= 1
MulFloat64(x, m) ==
    Only({RoundFloat64(digits, FALSE, x.e + Len(digits) - 53) :
          digits \in {MulBits(x.bits, m)}})

\* x > 1, x < 1
GreaterThanOne(x) == x.e >= 1 \/ (x.e = 0 /\ \E k \in 2..53 : x.bits[k] = 1)
LessThanOne(x) == x.e < 0

\* int(x), x >= 1
IntOfFloat64(x) == NatOfBits(SubSeq(x.bits, 1, x.e + 1))

\* computeCount(count, scaleFactor), scaleFactor the float64 nearest to
\* num/den: the values rand.Float64() lets it return
computeCount(count, sf) ==
    IF sf.num <= 0 THEN {0}
    ELSE UNION {IF GreaterThanOne(scaledCount) THEN {IntOfFloat64(scaledCount)}
                ELSE IF LessThanOne(scaledCount) THEN {0, 1}
                ELSE {1} :
                scaledCount \in {MulFloat64(scaleFactor, IF count > 1 THEN count ELSE 1) :
                                    scaleFactor \in {Float64Of(sf.num, sf.den)}}}

Cfg == Unmarshal(rawConfig.Body).Jobs

NewCycle == [prev |-> lastKnown, hadGen |-> cancelFn # 0, cancels |-> 0,
             launches |-> 0, started |-> 0, counts |-> <<>>, flushes |-> 0,
             flushed |-> 0]

\* Run, lines 100-104: fetch and decode
Fetch ==
    /\ rpc = "fetch"
    /\ cycles < MaxCycles
    /\ \E raw \in FetchRawMultiConfig(
                     nonNilConfigOrDefault(lastKnown, Raw(BackupBody, FALSE))) :
          rawConfig' = raw
    /\ hist' = NewCycle
    /\ rpc' = "decide"
    /\ UNCHANGED <<lastKnown, cancelFn, tracker, launchIdx, launchLeft, gens, cycles,
                   cancelled, stopped, runnerFields, jobVars>>

\* line 106 without the cfg != nil test
ShouldApplyUndecoded(last, raw) == ~BytesEqual(last.Body, raw.Body)

\* line 106 without the bytes.Equal test
ShouldApplyUnchanged(last, raw) == Unmarshal(raw.Body).ok

\* Run, line 106: restart the jobs only for a new, well-formed config
ShouldApply(last, raw) ==
    ~BytesEqual(last.Body, raw.Body) /\ Unmarshal(raw.Body).ok

\* Run, lines 106-109 and 125-127
Decide ==
    /\ rpc = "decide"
    /\ IF ShouldApply(lastKnown, rawConfig)
       THEN lastKnown' = rawConfig /\ rpc' = "cancel"
       ELSE lastKnown' = lastKnown /\ rpc' = "wait"
    /\ UNCHANGED <<rawConfig, cancelFn, tracker, launchIdx, launchLeft, gens, cycles,
                   hist, cancelled, stopped, runnerFields, jobVars>>

\* cancel(): the generation's scope is cancelled now
CancelScope(g) == [cancelled EXCEPT ![g] = IF @ = NotYet THEN now ELSE @]

\* lines 111-113 left out: the previous generation is never cancelled
CancelPreviousForgotten ==
    /\ rpc = "cancel"
    /\ rpc' = "metrics"
    /\ UNCHANGED <<lastKnown, rawConfig, cancelFn, tracker, launchIdx, launchLeft, gens,
                   cycles, hist, cancelled, stopped, runnerFields, jobVars>>

\* Run, lines 111-113
CancelPrevious ==
    /\ rpc = "cancel"
    /\ IF cancelFn # 0
       THEN cancelled' = CancelScope(cancelFn) /\ hist' = [hist EXCEPT !.cancels = @ + 1]
       ELSE UNCHANGED <<cancelled, hist>>
    /\ rpc' = "metrics"
    /\ UNCHANGED <<lastKnown, rawConfig, cancelFn, tracker, launchIdx, launchLeft, gens,
                   cycles, stopped, runnerFields, jobVars>>

\* the metrics runJobs is given: nil, and with it the logger zap.NewNop(),
\* for a protected config
MetricFor(raw, g) == IF raw.Protected THEN 0 ELSE g

\* Run, lines 115-124 and runJobs, lines 175-180: fresh metrics and tracker,
\* and the new generation's scope
NewGeneration ==
    /\ rpc = "metrics"
    /\ tracker' = gens + 1
    /\ gens' = gens + 1
    /\ hist' = [hist EXCEPT !.launches = @ + 1]
    /\ launchIdx' = 1
    /\ launchLeft' = NotYet
    /\ rpc' = "launch"
    /\ UNCHANGED <<lastKnown, rawConfig, cancelFn, cycles, cancelled, stopped,
                   runnerFields, jobVars>>

\* EntryCounts without the test of line 196: the count is always scaled
EntryCountsAlwaysScaled(e) ==
    IF Len(e.filter) # 0 /\ TrimSpace(ParseAndExecute(Lit(e.filter), EmptyEnv)) # StrTrue
    THEN {0}
    ELSE IF ~Get(e.job.type) THEN {0}
    ELSE computeCount(e.count, globalJobsCfg.ScaleFactor)

\* runJobs, lines 183-198: the number of instances of an entry
EntryCounts(e) ==
    IF Len(e.filter) # 0 /\ TrimSpace(ParseAndExecute(Lit(e.filter), EmptyEnv)) # StrTrue
    THEN {0}
    ELSE IF ~Get(e.job.type) THEN {0}
    ELSE IF globalJobsCfg.ScaleFactor.num > 0
         THEN computeCount(e.count, globalJobsCfg.ScaleFactor)
         ELSE {IF e.count > 0 THEN e.count ELSE 0}

\* runJobs, lines 200-203: an entry that passed the filter and the lookup is
\* decoded into the "config" map; logger.Fatal ends the process when that fails
DecodeFails(e) ==
    /\ ~(Len(e.filter) # 0 /\ TrimSpace(ParseAndExecute(Lit(e.filter), EmptyEnv)) # StrTrue)
    /\ Get(e.job.type)
    /\ e.undecodable

\* runJobs, lines 182-207: the next entry is filtered, looked up and scaled
LaunchEntry ==
    /\ rpc = "launch"
    /\ launchLeft = NotYet
    /\ launchIdx <= Len(Cfg)
    /\ \E n \in EntryCounts(Cfg[launchIdx]) :
          IF DecodeFails(Cfg[launchIdx])
          THEN rpc' = "exited" /\ UNCHANGED <<launchIdx, launchLeft, hist>>
          ELSE /\ rpc' = rpc
               /\ hist' = [hist EXCEPT !.counts = Append(@, n)]
               /\ IF n = 0
                  THEN launchIdx' = launchIdx + 1 /\ launchLeft' = NotYet
                  ELSE launchIdx' = launchIdx /\ launchLeft' = n
    /\ UNCHANGED <<lastKnown, rawConfig, cancelFn, tracker, gens, cycles,
                   cancelled, stopped, runnerFields, jobVars>>

\* runJobs, lines 208-225: go func(i) for one instance of the entry
StartInstance ==
    /\ rpc = "launch"
    /\ launchLeft # NotYet
    /\ inst' = Append(inst, Instance(gens, MetricFor(rawConfig, gens), rawConfig.Protected,
                                    Cfg[launchIdx].job))
    /\ hist' = [hist EXCEPT !.started = @ + 1]
    /\ IF launchLeft = 1
       THEN launchIdx' = launchIdx + 1 /\ launchLeft' = NotYet
       ELSE launchIdx' = launchIdx /\ launchLeft' = launchLeft - 1
    /\ UNCHANGED <<rpc, lastKnown, rawConfig, cancelFn, tracker, gens, cycles,
                   cancelled, stopped, runnerFields, locker, now>>

\* runJobs, lines 228-230, and Run, lines 121-124: cancel = runJobs(...)
LaunchDone ==
    /\ rpc = "launch"
    /\ launchLeft = NotYet
    /\ launchIdx > Len(Cfg)
    /\ cancelFn' = gens
    /\ rpc' = "wait"
    /\ UNCHANGED <<lastKnown, rawConfig, tracker, launchIdx, launchLeft, gens, cycles,
                   hist, cancelled, stopped, runnerFields, jobVars>>

\* Run, lines 130-131: the refresh timer fires
RefreshTick ==
    /\ rpc = "wait"
    /\ rpc' = "report"
    /\ UNCHANGED <<lastKnown, rawConfig, cancelFn, tracker, launchIdx, launchLeft, gens,
                   cycles, hist, cancelled, stopped, runnerFields, jobVars>>

\* Run, lines 132-137: the stop signal
StopSignal ==
    /\ rpc = "wait"
    /\ stopped # NotYet
    /\ IF cancelFn # 0
       THEN cancelled' = CancelScope(cancelFn) /\ hist' = [hist EXCEPT !.cancels = @ + 1]
       ELSE UNCHANGED <<cancelled, hist>>
    /\ rpc' = "returned"
    /\ UNCHANGED <<lastKnown, rawConfig, cancelFn, tracker, launchIdx, launchLeft, gens,
                   cycles, stopped, runnerFields, jobVars>>

\* reportMetrics without the test of tracker != nil
reportMetricsUntested(r, t) == IF r THEN <<t>> ELSE <<>>

\* reportMetrics(reporter, tracker, ...): the trackers given to
\* reporter.WriteSummary, none when the reporter or the tracker is nil
reportMetrics(r, t) == IF r /\ t # 0 THEN <<t>> ELSE <<>>

\* Run, line 140
Report ==
    /\ rpc = "report"
    /\ hist' = [hist EXCEPT !.flushes = @ + Len(reportMetrics(reporter, tracker)),
                            !.flushed = IF reportMetrics(reporter, tracker) # <<>>
                                        THEN reportMetrics(reporter, tracker)[1]
                                        ELSE @]
    /\ cycles' = cycles + 1
    /\ rpc' = "fetch"
    /\ UNCHANGED <<lastKnown, rawConfig, cancelFn, tracker, launchIdx, launchLeft, gens,
                   cancelled, stopped, runnerFields, jobVars>>

\* the context given to Run is cancelled (shutdown)
Shutdown ==
    /\ stopped = NotYet
    /\ rpc \notin {"returned", "exited"}
    /\ stopped' = now
    /\ UNCHANGED <<runnerVars, cancelled, runnerFields, jobVars>>

RunnerStep ==
    \/ Fetch
    \/ Decide
    \/ CancelPrevious
    \/ NewGeneration
    \/ LaunchEntry
    \/ StartInstance
    \/ LaunchDone
    \/ RefreshTick
    \/ StopSignal
    \/ Report
    \/ Shutdown

MaxGens == MaxCycles

Init ==
    /\ rpc = "fetch"
    /\ lastKnown = NilConfig
    /\ rawConfig = NilConfig
    /\ cancelFn = 0
    /\ tracker = 0
    /\ launchIdx = 1
    /\ launchLeft = NotYet
    /\ gens = 0
    /\ cancelled = [g \in 1..MaxGens |-> NotYet]
    /\ stopped = NotYet
    /\ cycles = 0
    /\ hist = NewCycle
    /\ inst = <<>>
    /\ globalJobsCfg \in {[SkipEncrypted |-> FALSE, ScaleFactor |-> [num |-> n, den |-> 2]] :
                            n \in {0, 1}}
    /\ reporter \in BOOLEAN
    /\ intSize = 64   \* no entry of these configs is a set-value job
    /\ locker = <<>>
    /\ now = 0

Next ==
    \/ RunnerStep
    \/ \E i \in DOMAIN inst : InstStep(i)
    \/ Tick

Spec == Init /\ [][Next]_vars

\* the steps of Run's goroutine that do not wait for anything
RunnerProgress ==
    \/ Fetch
    \/ Decide
    \/ CancelPrevious
    \/ NewGeneration
    \/ LaunchEntry
    \/ StartInstance
    \/ LaunchDone
    \/ Report

\* Run's goroutine keeps running, and the select of lines 130-138, which picks
\* at random among its ready cases, does not ignore a done context forever
FairSpec == Spec /\ WF_vars(RunnerProgress) /\ SF_vars(StopSignal)

-----------------------------------------------------------------------------
(* One launch pass: Run has fetched a config of two entries and applies it *)

EntryKinds == 1..7
RequestedCounts == (0 - 1)..MaxRequested
LaterKinds == {1, 7}

LaunchBodies ==
    {<<4, k, c + 1, l>> : k \in EntryKinds, c \in RequestedCounts, l \in LaterKinds}

\* r.globalJobsCfg.ScaleFactor: -1/2, 0, 1/2, 1, 3/2
ScaleFactors == {[num |-> n, den |-> 2] : n \in (0 - 1)..3}

InitLaunch ==
    /\ rpc = "decide"
    /\ lastKnown = NilConfig
    /\ rawConfig \in {Raw(b, FALSE) : b \in LaunchBodies}
    /\ cancelFn = 0
    /\ tracker = 0
    /\ launchIdx = 1
    /\ launchLeft = NotYet
    /\ gens = 0
    /\ cancelled = [g \in 1..MaxGens |-> NotYet]
    /\ stopped = NotYet
    /\ cycles = 0
    /\ hist = NewCycle
    /\ inst = <<>>
    /\ globalJobsCfg \in {[SkipEncrypted |-> FALSE, ScaleFactor |-> sf] : sf \in ScaleFactors}
    /\ reporter = TRUE
    /\ intSize = 64   \* no entry of these configs is a set-value job
    /\ locker = <<>>
    /\ now = 0

NextLaunch ==
    \/ Decide
    \/ CancelPrevious
    \/ NewGeneration
    \/ LaunchEntry
    \/ StartInstance
    \/ LaunchDone
    \/ \E i \in DOMAIN inst : InstStep(i)
    \/ Tick
    \/ Shutdown
    \/ StopSignal

SpecLaunch == InitLaunch /\ [][NextLaunch]_vars

-----------------------------------------------------------------------------
(* The job layer on its own: the Runner has applied a config and waits in  *)
(* its select; the jobs of the running instances are the inputs.           *)

Durations == 1..MaxSleep
Counts == 0..MaxCount

KeyA == Lit(<<"a">>)
KeyB == Lit(<<"b">>)

\* the set-value job of a chain: its output is its previous output and "1"
ChainCfg == SetValueCfg("x", Tpl(<<"x">>, <<"1">>), "int")

\* values at the limits of the set-value types: 2147483648 is an int only
\* where int has 64 bits; 4294967296a goes over the 32 bits of a uint before
\* its last byte is read
TerminalJobs ==
    {LogCfg, BadArgs(LogCfg), CheckCfg(Lit(StrTrue)), CheckCfg(Lit(<<"n", "o">>)),
     UnknownCfg, ChainCfg, SetValueCfg("y", Lit(<<"a">>), "uint"),
     SetValueCfg("y", Lit(MinInt32Abs), "int"),
     SetValueCfg("y", Lit(<<"4", "2", "9", "4", "9", "6", "7", "2", "9", "6", "a">>), "uint")}
    \cup {SleepCfg(d) : d \in Durations}
    \cup {PayloadCfg(o) : o \in {"ok", "fail", "panic", "wait"}}

EncModes == {"ok", "protected", "bad base64", "bad ciphertext", "bad format"}

\* jobConfig.Timeout is a time.Duration: zero when the args name none, and it
\* may be negative
Wrappers(j) ==
    {DiscardErrorCfg(j), LockCfg(KeyA, j)}
    \cup {TimeoutCfg(d, j) : d \in {0 - 1, 0} \cup Durations}
    \cup {LoopCfg(n, j) : n \in Counts}
    \cup {EncryptedCfg(m, j) : m \in EncModes}

WrapAll(js) == UNION {Wrappers(j) : j \in js}

\* combinators whose args ParseConfig rejects
BadCombinators == {BadArgs(w) : w \in Wrappers(LogCfg)}

\* every job of at most two combinators around a terminal job; runJobs starts
\* no instance of an entry whose type is not registered
JobTrees ==
    {j \in TerminalJobs \cup WrapAll(TerminalJobs) \cup WrapAll(WrapAll(TerminalJobs)) :
        Get(j.type)}
    \cup BadCombinators

RECURSIVE Mentions(_, _)
Mentions(j, type) ==
    j.type = type \/ (j.job # NoJob /\ Mentions(Nested(j), type))

\* the jobs of instances that contend for named locks
LockBodies ==
    {SleepCfg(1), PayloadCfg("fail"), PayloadCfg("panic"), UnknownCfg,
     LockCfg(KeyA, LogCfg), TimeoutCfg(1, LockCfg(KeyA, LogCfg)),
     LockCfg(KeyB, PayloadCfg("panic"))}

LockJobs == {LockCfg(k, j) : k \in {KeyA, KeyB}, j \in LockBodies}
            \cup {BadArgs(LockCfg(KeyA, LogCfg))}

Contenders == {LockCfg(k, SleepCfg(1)) : k \in {KeyA, KeyB}}

\* the Runner after it has launched generation g and returned to its select
Parked(g) ==
    /\ rpc = "wait"
    /\ lastKnown = Raw(<<1>>, FALSE)
    /\ rawConfig = Raw(<<1>>, FALSE)
    /\ cancelFn = g
    /\ tracker = g
    /\ launchIdx = 1
    /\ launchLeft = NotYet
    /\ gens = g
    /\ stopped = NotYet
    /\ cycles = 0
    /\ hist = [NewCycle EXCEPT !.launches = 1]
    /\ reporter = TRUE
    /\ intSize \in IntSizes
    /\ locker = <<>>
    /\ now = 0

\* one instance of any job
InitOne ==
    /\ Parked(1)
    /\ cancelled = [g \in 1..MaxGens |-> NotYet]
    /\ \E j \in JobTrees :
          /\ inst = <<Instance(1, 1, FALSE, j)>>
          /\ globalJobsCfg \in
                {[SkipEncrypted |-> b, ScaleFactor |-> [num |-> 0, den |-> 1]] :
                   b \in IF Mentions(j, "encrypted") THEN BOOLEAN ELSE {FALSE}}

\* NumInstances instances of lock jobs: the first of generation 1, the others of
\* generation g; when g = 2, generation 1 has been replaced and cancelled
InitLocks ==
    \E g \in 1..2 :
       /\ Parked(g)
       /\ cancelled = [h \in 1..MaxGens |-> IF h < g THEN 0 ELSE NotYet]
       /\ globalJobsCfg = [SkipEncrypted |-> FALSE, ScaleFactor |-> [num |-> 0, den |-> 1]]
       /\ \E a \in LockJobs, b \in Contenders :
             inst = [i \in 1..NumInstances |->
                       IF i = 1 THEN Instance(1, 1, FALSE, a)
                       ELSE Instance(g, g, FALSE, b)]

InitJobs == InitOne \/ InitLocks

NextJobs ==
    \/ \E i \in DOMAIN inst : InstStep(i)
    \/ Tick
    \/ Shutdown
    \/ StopSignal

SpecJobs == InitJobs /\ [][NextJobs]_vars

-----------------------------------------------------------------------------
(* Claims about the Runner, checked under Spec                             *)

CycleDecided == rpc \in {"wait", "report"}

\* C1: a refresh cycle cancels the current generation and launches a new one
\* exactly when the fetched body differs from the applied body and decodes;
\* every other cycle cancels nothing, launches nothing and keeps the applied body.
C1_SwitchOnlyOnNewWellFormedBody ==
    CycleDecided =>
        IF ~BytesEqual(hist.prev.Body, rawConfig.Body) /\ Unmarshal(rawConfig.Body).ok
        THEN /\ hist.launches = 1
             /\ hist.cancels = IF hist.hadGen THEN 1 ELSE 0
             /\ lastKnown = rawConfig
        ELSE /\ hist.launches = 0
             /\ hist.cancels = 0
             /\ hist.started = 0
             /\ lastKnown = hist.prev

\* a cycle that replaced a running generation, and started an instance
C1_Witness ==
    /\ CycleDecided
    /\ hist.hadGen /\ hist.cancels = 1 /\ hist.launches = 1 /\ hist.started > 0
    /\ hist.prev.Body # <<>> /\ lastKnown.Body # hist.prev.Body

LiveGenerations == {g \in 1..gens : cancelled[g] = NotYet}

\* C2: at most one generation has a scope whose cancel was not called; an
\* instance exists only once every earlier generation was cancelled, and its
\* metrics are those of its own generation (or none), never an earlier one's.
C2_AtMostOneLiveGeneration ==
    /\ Cardinality(LiveGenerations) <= 1
    /\ \A i \in DOMAIN inst :
          /\ \A g \in 1..(inst[i].gen - 1) : cancelled[g] # NotYet
          /\ inst[i].metric \in {0, inst[i].gen}

\* an instance of a cancelled generation still runs beside one of the new generation
C2_Witness ==
    \E i, j \in DOMAIN inst :
       /\ inst[i].gen = 1 /\ inst[j].gen = 2
       /\ Running(i) /\ Running(j)
       /\ cancelled[1] # NotYet /\ cancelled[2] = NotYet

\* Run has ended: it returned (line 137) or the process exited (logger.Fatal)
RunEnded == rpc \in {"returned", "exited"}

\* C11: nothing but the shutdown signal ends Run: not a handler error, a
\* decode failure, an unknown type or a fault of an instance, and not a failure
\* to build an entry's environment in the launch pass.
C11_OnlyShutdownEndsRun ==
    RunEnded => (rpc = "returned" /\ stopped # NotYet)

\* config.FetchRawMultiConfig of this cycle returns
FetchReturns == ~(rpc = "fetch" /\ cycles >= MaxCycles)

\* C12: once the shutdown signal is raised Run eventually returns, provided the
\* fetches return; when it has returned every generation's scope is cancelled.
C12_ShutdownEventuallyReturnsCancelled ==
    /\ [](rpc = "returned" => \A g \in 1..gens : cancelled[g] # NotYet)
    /\ (stopped # NotYet) ~> (rpc = "returned" \/ ~FetchReturns)

\* the refresh timer has ended a cycle and Run has called reportMetrics for it
CycleReported == rpc = "fetch" /\ cycles > 0

\* Run has come to the end of a refresh cycle: the refresh timer ended it and
\* reportMetrics was called, or the shutdown signal ended it and Run returned
CycleEnded == CycleReported \/ rpc = "returned"

\* C17 as stated: after each refresh cycle, applied or not, the metrics of a
\* generation, when they exist, have been flushed through the reporter exactly
\* once for that cycle; the metrics flushed are those of the latest generation
\* switch, and nothing is flushed before the first generation.
C17_FlushedOnceAfterEachCycle ==
    /\ CycleEnded => hist.flushes = (IF tracker # 0 THEN 1 ELSE 0)
    /\ hist.flushes >= 1 => (hist.flushed = gens /\ hist.flushed = tracker)
    /\ gens = 0 => hist.flushes = 0

\* C17, amended: each refresh cycle that the refresh timer ends, applied or
\* not, is followed by exactly one flush when a generation's metrics exist and
\* a reporter is configured, and by none when there is no reporter or no
\* generation yet; the iteration that the shutdown signal ends has no flush;
\* the metrics flushed are those of the latest generation switch; nothing is
\* flushed at any other point of a cycle.
C17_OneFlushPerCycleOfLatestMetrics ==
    /\ CycleReported => hist.flushes = (IF reporter /\ tracker # 0 THEN 1 ELSE 0)
    /\ hist.flushes >= 1 => (hist.flushed = gens /\ hist.flushed = tracker)
    /\ ~CycleReported => hist.flushes = 0
    /\ gens = 0 => hist.flushes = 0

\* the cycle that replaced the first generation was followed by one flush, of
\* the metrics of the second generation
C17_Witness ==
    /\ CycleReported /\ reporter
    /\ hist.hadGen /\ hist.launches = 1
    /\ gens = 2 /\ hist.flushes = 1 /\ hist.flushed = 2

\* the running instances of generation g
RunningOf(g) == {i \in DOMAIN inst : inst[i].gen = g /\ inst[i].status = "running"}

\* C20: instances start only in the launch pass of a generation switch and are
\* never restarted: the running instances of a generation grow only in that
\* generation's launch pass, an instance that has ended stays ended, and a
\* cycle whose fetch returns the applied body starts nothing.
C20_InstancesStartOnlyInLaunchPass ==
    /\ [][/\ Len(inst') >= Len(inst)
          /\ \A i \in DOMAIN inst :
                /\ inst'[i].gen = inst[i].gen
                /\ inst[i].status # "running" => inst'[i].status = inst[i].status
          /\ \A g \in 1..MaxGens :
                ~(RunningOf(g)' \subseteq RunningOf(g))
                   => (rpc = "launch" /\ gens = g /\ hist.launches = 1)]_vars
    /\ [](CycleDecided /\ BytesEqual(hist.prev.Body, rawConfig.Body)
             => hist.started = 0 /\ hist.launches = 0)

\* the second cycle fetched the body already applied: the entries that were
\* left out and the instance that faulted are still absent
C20_Witness ==
    /\ CycleDecided /\ cycles = 1
    /\ rawConfig.Body = <<2>> /\ hist.prev.Body = <<2>>
    /\ gens = 1 /\ RunningOf(1) = {}
    /\ \E i \in DOMAIN inst : inst[i].status = "fault"

-----------------------------------------------------------------------------
(* Claims about the job layer, checked under SpecJobs                      *)

Active(i) == Running(i) /\ Depth(i) > 0

Gen(i) == inst[i].gen

\* the positions of the handler invocations on the stacks
Invocations == {<<i, d>> \in (DOMAIN inst) \X (1..8) : d <= Len(inst[i].stack)}

FrameAt(v) == inst[v[1]].stack[v[2]]

\* the invocation v of lockJob has its key and has not returned or unwound
InLockBody(v) ==
    FrameAt(v).job.type = "lock" /\ FrameAt(v).pc \in {"locked", "wait", "panic"}

WaitsForLock(i) == Active(i) /\ Top(i).job.type = "lock" /\ Top(i).pc = "locking"

\* C3: once its generation's scope is cancelled, an instance that waits in the
\* lock combinator for a key another instance held stops waiting: it never takes the key
\* to run its nested job.
C3_CancelledLockWaitNeverAcquires ==
    [][\A i \in DOMAIN inst :
          (WaitsForLock(i) /\ Top(i).waited /\ CtxDone(Gen(i), Top(i)))
             => ~(inst'[i].stack # <<>>
                  /\ inst'[i].stack[Len(inst'[i].stack)].pc = "locked")]_vars

Sleeping(i) == Active(i) /\ Top(i).job.type = "sleep" /\ Top(i).pc = "sleep"

\* C4: a sleep job whose scope is cancelled before its duration has elapsed
\* stops blocking at the cancellation: it does not stay blocked while the
\* clock runs through the rest of its duration.
C4_CancelledSleepStopsBlocking ==
    [][\A i \in DOMAIN inst :
          (Sleeping(i) /\ Top(i).rem > 0 /\ CtxDone(Gen(i), Top(i)))
             => ~(now' > now /\ inst'[i].stack # <<>>
                  /\ inst'[i].stack[Len(inst'[i].stack)].pc = "sleep")]_vars

\* the nested job of the timeout invocation on top of i's stack has returned
\* after the bound had elapsed, with the generation's scope not cancelled
TimeoutOutlived(i) ==
    /\ Active(i) /\ Top(i).job.type = "timeout" /\ Top(i).pc = "wait"
    /\ inst[i].ret # NoResult
    /\ now > Top(i).deadline
    /\ RootCancelledAt(Gen(i)) = NotYet

\* C5: a timeout combinator whose nested job has not finished when the bound
\* elapses returns a deadline-exceeded error, never success.
C5_TimeoutReturnsDeadlineExceeded ==
    \A i \in DOMAIN inst :
       TimeoutOutlived(i) =>
          /\ Effect(i).op = "return"
          /\ Effect(i).res.err.e = "deadline exceeded"

\* C6: two invocations of the lock combinator with the same resolved key are
\* never both past locker.Lock, and an invocation that waits for a key no
\* invocation holds can take it.
C6_SameKeyBodiesExclude ==
    /\ \A v, w \in Invocations :
          (v # w /\ InLockBody(v) /\ InLockBody(w)) => FrameAt(v).key # FrameAt(w).key
    /\ \A i \in DOMAIN inst :
          (WaitsForLock(i)
           /\ ~\E v \in Invocations : InLockBody(v) /\ FrameAt(v).key = Top(i).key)
             => ENABLED StepAcquire(i)

\* an instance runs its nested job under a key while an instance of another
\* generation waits for the same key and a third party holds another key, or:
\* one holds the key, the other waits for it
C6_Witness ==
    \E i, j \in DOMAIN inst :
       /\ i # j /\ Gen(i) # Gen(j)
       /\ Active(i) /\ InLockBody(<<i, 1>>) /\ Depth(i) = 2
       /\ WaitsForLock(j) /\ Top(j).key = inst[i].stack[1].key

\* C7: a key of the Locker is held only by an invocation of lockJob that is
\* still on its instance's stack, past locker.Lock; so when an invocation has
\* returned or unwound, by any path, it holds no key.
C7_KeyHeldOnlyWhileInvocationRuns ==
    \A k \in DOMAIN locker :
       locker[k] # <<>> =>
          /\ locker[k] \in Invocations
          /\ Running(locker[k][1])
          /\ InLockBody(locker[k])
          /\ FrameAt(locker[k]).key = k

\* a panic of the nested job has unwound a lock invocation, and no key is held
C7_Witness ==
    /\ \E i \in DOMAIN inst :
          /\ inst[i].status = "fault"
          /\ inst[i].job.type = "lock"
          /\ ParseAndExecute(inst[i].job.key, EmptyEnv) \in DOMAIN locker
    /\ \A k \in DOMAIN locker : locker[k] = <<>>

\* C8: the discard-error combinator returns (nil, nil) whenever its nested job
\* returned an error, whatever came with the error, and whenever the nested
\* type is unknown.
C8_DiscardErrorReturnsNilResult ==
    \A i \in DOMAIN inst :
       (Active(i) /\ Top(i).job.type = "discard-error" /\ ParseConfig(Top(i).job)) =>
          /\ (Top(i).pc = "wait" /\ inst[i].ret # NoResult /\ inst[i].ret.err # NoErr)
                => Effect(i) = Return(NilData, NoErr)
          /\ (Top(i).pc = "call" /\ ~Get(Nested(Top(i).job).type))
                => Effect(i) = Return(NilData, NoErr)

RECURSIVE Ones(_)
Ones(n) == IF n = 0 THEN <<>> ELSE <<"1">> \o Ones(n - 1)

\* the value a chain job returns in its k-th run in a row
ChainOutput(k) == IF k = 0 THEN NilData ELSE Data("int", Ones(k))

IsLoop(v) == FrameAt(v).job.type = "loop" /\ ParseConfig(FrameAt(v).job)

\* C9: a loop whose condition holds for exactly N iterations runs its nested
\* job N times, one after another: after k iterations the k-th output is
\* stored under the nested job's name, the (k+1)-th run and the (k+1)-th check
\* see it, and without error or cancellation the loop returns only after N.
C9_LoopChainsOutputs ==
    \A v \in Invocations :
       IsLoop(v) =>
          LET f == FrameAt(v)
              i == v[1]
          IN  /\ f.iter <= f.job.count
              /\ (Nested(f.job) = ChainCfg) => f.env["x"] = ChainOutput(f.iter)
              /\ (f.pc = "wait" /\ v[2] < Depth(i)) =>
                    /\ inst[i].stack[v[2] + 1].job = Nested(f.job)
                    /\ inst[i].stack[v[2] + 1].pc = "call"
                          => inst[i].stack[v[2] + 1].env = f.env
              /\ (v[2] = Depth(i) /\ Running(i) /\ f.pc \in {"call", "next"}
                  /\ ~CtxDone(Gen(i), f) /\ Get(Nested(f.job).type)) =>
                    IF f.iter = f.job.count
                    THEN Effect(i) = Return(NilData, NoErr)
                    ELSE Effect(i).op = "call"

\* the check after the last iteration: N outputs were chained, the N-th is stored
C9_Witness ==
    \E i \in DOMAIN inst :
       /\ Active(i) /\ IsLoop(<<i, Depth(i)>>)
       /\ Top(i).job.count = MaxCount /\ Nested(Top(i).job) = ChainCfg
       /\ Top(i).pc = "next" /\ Top(i).iter = MaxCount
       /\ Top(i).env["x"] = ChainOutput(MaxCount)
       /\ ~CtxDone(Gen(i), Top(i))

HardCombinators == {"timeout", "lock", "loop", "encrypted"}

Finished(i) == inst[i].status = "done"

\* the nested job of the invocation on top of i's stack has just returned
NestedReturned(i) == Active(i) /\ Top(i).pc = "wait" /\ inst[i].ret # NoResult

UnknownNested(j) == j.job # NoJob /\ ~Get(Nested(j).type)

\* C10: every invocation of timeout, lock, loop or encrypted whose nested type
\* is not registered returns an error, whatever its other parameters; the
\* discard-error combinator returns success for an unregistered nested type.
C10_UnknownNestedTypeIsHardError ==
    \A i \in DOMAIN inst :
       /\ (Finished(i) /\ UnknownNested(inst[i].job)) =>
             /\ inst[i].job.type \in HardCombinators => inst[i].out.err # NoErr
             /\ (inst[i].job.type = "discard-error" /\ ParseConfig(inst[i].job))
                   => inst[i].out.err = NoErr
       /\ (NestedReturned(i) /\ UnknownNested(Nested(Top(i).job))) =>
             /\ Nested(Top(i).job).type \in HardCombinators => inst[i].ret.err # NoErr
             /\ (Nested(Top(i).job).type = "discard-error"
                 /\ ParseConfig(Nested(Top(i).job)))
                   => inst[i].ret.err = NoErr

SkipError == Err("skip encrypted", 0)

\* C14: when globalConfig.SkipEncrypted is set, every invocation of the
\* encrypted combinator returns the skip error at once: before ParseConfig,
\* the decoding, the decryption, the lookup and the call of a nested job.
C14_SkipEncryptedFailsImmediately ==
    globalJobsCfg.SkipEncrypted =>
       /\ \A v \in Invocations :
             FrameAt(v).job.type = "encrypted" =>
                /\ v[2] = Depth(v[1])
                /\ FrameAt(v).pc = "call"
                /\ Running(v[1]) => Effect(v[1]) = Return(NilData, SkipError)
       /\ \A i \in DOMAIN inst :
             (Finished(i) /\ inst[i].job.type = "encrypted")
                => inst[i].out = Result(NilData, SkipError)

\* an encrypted job whose args do not parse has returned the skip error
C14_Witness ==
    /\ globalJobsCfg.SkipEncrypted
    /\ \E i \in DOMAIN inst :
          /\ Finished(i)
          /\ inst[i].job.type = "encrypted" /\ ~ParseConfig(inst[i].job)
          /\ inst[i].out.err = SkipError

\* the nested job of the loop invocation on top of i's stack has returned an error
LoopGotError(i) ==
    /\ NestedReturned(i) /\ Top(i).job.type = "loop"
    /\ inst[i].ret.err # NoErr

\* what instance i's top invocation has handed to its caller in this step
Handed(i) == IF Depth(i) = 1 THEN inst'[i].out ELSE inst'[i].ret

\* C18: when the nested job of a loop returns an error the loop stops at once:
\* its next step is its return, with an empty result and an error that wraps
\* the nested error; it starts no further iteration, does not evaluate the
\* condition again and stores no output.
C18_LoopStopsOnNestedError ==
    [][\A i \in DOMAIN inst :
          (LoopGotError(i) /\ inst'[i] # inst[i]) =>
             /\ inst'[i].stack = SubSeq(inst[i].stack, 1, Depth(i) - 1)
             /\ Handed(i) = Result(NilData, Wrap(inst[i].ret.err))]_vars

\* a loop with iterations to go whose nested job returned a value with its error
C18_Witness ==
    \E i \in DOMAIN inst :
       /\ LoopGotError(i)
       /\ Top(i).job.count = MaxCount /\ Top(i).iter = 0
       /\ inst[i].ret.data # NilData
       /\ ~CtxDone(Gen(i), Top(i))

\* instance i waits for a key that an invocation below it on its own stack holds
SelfDeadlocked(i) ==
    /\ WaitsForLock(i)
    /\ \E d \in 1..(Depth(i) - 1) :
          InLockBody(<<i, d>>) /\ inst[i].stack[d].key = Top(i).key

\* C19: the lock is not re-entrant and its wait ignores cancellation: an
\* instance whose lock job nests, directly or through other combinators, a lock
\* on the same key never acquires it and never returns, the key stays held,
\* and every instance that waits for that key waits forever, cancelled or not.
C19_NestedSameKeyLockBlocksForever ==
    [][\A i \in DOMAIN inst :
          SelfDeadlocked(i) =>
             /\ inst'[i] = inst[i]
             /\ locker'[Top(i).key] = locker[Top(i).key]
             /\ \A j \in DOMAIN inst :
                   (WaitsForLock(j) /\ Top(j).key = Top(i).key) => inst'[j] = inst[j]]_vars

\* the inner lock is reached through a timeout whose bound has passed, another
\* instance waits for the key, and the scopes of both are cancelled
C19_Witness ==
    \E i, j \in DOMAIN inst :
       /\ i # j
       /\ SelfDeadlocked(i) /\ Depth(i) = 3
       /\ DeadlinePassed(Top(i))
       /\ WaitsForLock(j) /\ Top(j).key = Top(i).key
       /\ CtxDone(Gen(i), Top(i)) /\ CtxDone(Gen(j), Top(j))
       /\ stopped # NotYet

-----------------------------------------------------------------------------
(* Claims about one launch pass, checked under SpecLaunch                  *)

ScaleFactor == globalJobsCfg.ScaleFactor

\* the entry is left out by its filter or because its type is not registered
Skipped(e) ==
    \/ e.filter # <<>> /\ TrimSpace(e.filter) # StrTrue
    \/ e.job.type \notin RegisteredTypes

\* q is the floor of n / d
IsFloor(q, n, d) == q * d <= n /\ n < (q + 1) * d

AtLeastOne(count) == IF count < 1 THEN 1 ELSE count

\* r may be the instance count for a requested count under scale factor sf > 0
ScalerContract(count, sf, r) ==
    /\ r >= 0
    /\ IF sf.num * AtLeastOne(count) > sf.den
       THEN IsFloor(r, sf.num * AtLeastOne(count), sf.den)
       ELSE r \in {0, 1}

\* requested counts: none, one, a few, a hundred
CountsToScale == (0 - 2)..10 \cup {100}

\* scale factors in halves and quarters, and in hundredths as the -scale flag
\* takes them (0.29, 0.5, 0.57, 1.5)
PositiveScaleFactors ==
    {[num |-> n, den |-> d] : n \in 1..8, d \in {1, 2, 4}}
    \cup {[num |-> n, den |-> 100] : n \in {29, 50, 57, 150}}

\* C13: for a scale factor > 0, computeCount returns the floor of
\* scaleFactor * max(count, 1) when that product exceeds 1, and 0 or 1
\* otherwise; never a negative value; computeCount(10, 0.5) = 5 and
\* computeCount(1, 2.0) = 2. Stated of the function and of the counts the
\* launch pass got from it (the function does not depend on the state, so
\* its table is evaluated in the states before the pass only).
C13_ComputeCountFloorsOrDrawsBit ==
    /\ rpc = "decide" =>
          /\ \A c \in CountsToScale, sf \in PositiveScaleFactors :
                /\ computeCount(c, sf) # {}
                /\ \A r \in computeCount(c, sf) : ScalerContract(c, sf, r)
          /\ computeCount(10, [num |-> 1, den |-> 2]) = {5}
          /\ computeCount(1, [num |-> 2, den |-> 1]) = {2}
    /\ \A idx \in DOMAIN hist.counts :
          (~Skipped(Cfg[idx]) /\ ScaleFactor.num > 0)
             => ScalerContract(Cfg[idx].count, ScaleFactor, hist.counts[idx])

\* the instance counts the launch pass may give entry e
AllowedCounts(e) ==
    IF Skipped(e) THEN {0}
    ELSE IF ScaleFactor.num > 0 THEN computeCount(e.count, ScaleFactor)
    ELSE {IF e.count > 0 THEN e.count ELSE 0}

RECURSIVE Copies(_, _)
Copies(x, n) == IF n <= 0 THEN <<>> ELSE <<x>> \o Copies(x, n - 1)

\* the jobs of the instances of the first n entries, in the order of the entries
RECURSIVE ExpectedJobs(_)
ExpectedJobs(n) ==
    IF n = 0 THEN <<>>
    ELSE ExpectedJobs(n - 1) \o Copies(Cfg[n].job, hist.counts[n])

StartedJobs == [i \in DOMAIN inst |-> inst[i].job]

IsPrefix(a, b) == Len(a) <= Len(b) /\ a = SubSeq(b, 1, Len(a))

LaunchPassDone == rpc \in {"wait", "returned"}

\* C15: a launch pass takes the entries in the order of the config; an entry
\* that its filter leaves out, or of an unregistered type, starts no instance
\* and the pass goes on to the next entry; any other entry starts exactly
\* computeCount(count, scaleFactor) instances when the scale factor is > 0 and
\* exactly its count (none when that is <= 0) otherwise.
C15_LaunchPassCountsPerEntry ==
    (rpc = "launch" \/ LaunchPassDone) =>
       /\ Len(hist.counts) <= Len(Cfg)
       /\ \A idx \in DOMAIN hist.counts : hist.counts[idx] \in AllowedCounts(Cfg[idx])
       /\ IsPrefix(StartedJobs, ExpectedJobs(Len(hist.counts)))
       /\ Len(hist.counts) > 0 => IsPrefix(ExpectedJobs(Len(hist.counts) - 1), StartedJobs)
       /\ LaunchPassDone =>
             /\ Len(hist.counts) = Len(Cfg)
             /\ StartedJobs = ExpectedJobs(Len(Cfg))

\* with scaling off, an unregistered type asking for two instances got none,
\* and the entry after it got its one instance
C15_Witness ==
    /\ LaunchPassDone
    /\ ScaleFactor.num <= 0
    /\ Cfg[1].job.type \notin RegisteredTypes /\ Cfg[1].count = 2
    /\ hist.counts = <<0, 1>>
    /\ StartedJobs = <<Cfg[2].job>>

\* instance i ends in this step with a handler error or a fault
FailsNow(i) ==
    /\ inst[i].status = "running"
    /\ \/ inst'[i].status = "fault"
       \/ inst'[i].status = "done" /\ inst'[i].out.err # NoErr

\* instance j waits for the clock in time.Sleep
AsleepStill(j) == Active(j) /\ Top(j).pc = "sleep" /\ Top(j).rem > 0

\* C16: a handler error or a fault of one instance stays in that instance: the
\* step in which it fails cancels no scope and changes neither the Runner nor
\* any other instance; the launch pass can always go on, and every instance
\* that is not asleep can always take its next step.
C16_FailureConfinedToInstance ==
    /\ [][\A i \in DOMAIN inst :
             FailsNow(i) =>
                /\ cancelled' = cancelled /\ stopped' = stopped
                /\ runnerVars' = runnerVars
                /\ \A j \in DOMAIN inst \ {i} : inst'[j] = inst[j]]_vars
    /\ [](rpc = "launch" => ENABLED (LaunchEntry \/ StartInstance \/ LaunchDone))
    /\ [](\A j \in DOMAIN inst : (Active(j) /\ ~AsleepStill(j)) => ENABLED InstStep(j))

\* two instances have faulted, and an instance started after them has finished
\* without error, in a generation that is not cancelled
C16_Witness ==
    \E i, j, k \in DOMAIN inst :
       /\ i < j /\ j < k
       /\ inst[i].status = "fault" /\ inst[j].status = "fault"
       /\ Finished(k) /\ inst[k].out.err = NoErr
       /\ LaunchPassDone /\ cancelled[Gen(k)] = NotYet /\ stopped = NotYet

====
